---------------------------- MODULE Spec2Model ----------------------------
(***************************************************************************)
(* emukit.core.bandit_parameter.BanditParameter                            *)
(*                                                                         *)
(* A BanditParameter owns an N x D table of valid joint values (domain)    *)
(* and one sub-parameter descriptor per column (parameters).  The model    *)
(* has one action per public operation; each action evaluates the whole    *)
(* method body and records the call and its outcome.                       *)
(*                                                                         *)
(* numpy arrays are records [type, dtype, shape, data]: shape is the tuple *)
(* of axis lengths, data the elements in row-major order.  Table values    *)
(* are finite numbers, modelled by small naturals; Euclidean norms are     *)
(* compared through their squares (sqrt is strictly increasing).           *)
(***************************************************************************)
EXTENDS Integers, Sequences, FiniteSets

VARIABLES pc, name, domain, parameters, call, result

vars == <<pc, name, domain, parameters, call, result>>

\* Largest length of an axis of an array (rows or columns of a table).
MaxAxis == 3

\* Largest number of elements of an array (a table of N rows and D columns
\* has N * D elements).
MaxCells == 4

\* Table and query values are 0 .. MaxVal.
MaxVal == 1

\* Largest point_count passed to sample_uniform.
MaxPoints == 2

-----------------------------------------------------------------------------
(* numpy arrays and the other values the methods take                      *)

Values == 0 .. MaxVal

RECURSIVE Size(_)
Size(shape) == IF shape = <<>> THEN 1 ELSE Head(shape) * Size(Tail(shape))

Shapes1 == {<<k>> : k \in 0 .. MaxAxis}

Shapes2 == {s \in (0 .. MaxAxis) \X (0 .. MaxAxis) : s[1] * s[2] <= MaxCells}

NdArray(dtype, shape, data) ==
    [type |-> "ndarray", dtype |-> dtype, shape |-> shape, data |-> data]

ArraysOf(dtypes, shapes) ==
    UNION {{NdArray(t, s, d) : d \in [1 .. Size(s) -> Values]} :
           <<t, s>> \in dtypes \X shapes}

\* A Python float.
Scalar(v) == [type |-> "float", dtype |-> "number", shape |-> <<>>, data |-> <<v>>]

\* A Python list holding one 1-d array: array-like of shape (1, D).
ListOf(row) ==
    [type |-> "list", dtype |-> "number", shape |-> <<1, Len(row)>>, data |-> row]

ndim(x) == Len(x.shape)

\* Element (i, j) of a 2-d array, 1-based.
At(a, i, j) == a.data[(i - 1) * a.shape[2] + j]

\* Row i of a 2-d array, as a tuple.
Row(a, i) == [j \in 1 .. a.shape[2] |-> At(a, i, j)]

\* Column j of a 2-d array, as a tuple.
Column(a, j) == [i \in 1 .. a.shape[1] |-> At(a, i, j)]

\* x.ravel()
ravel(x) == NdArray(x.dtype, <<Size(x.shape)>>, x.data)

RECURSIVE SortedSeq(_)
SortedSeq(S) ==
    IF S = {} THEN <<>>
    ELSE LET m == CHOOSE v \in S : \A w \in S : v <= w
         IN  <<m>> \o SortedSeq(S \ {m})

\* np.unique of a 1-d tuple: its distinct values in increasing order.
unique(col) == SortedSeq({col[i] : i \in 1 .. Len(col)})

-----------------------------------------------------------------------------
(* Outcomes of a call: a returned value or a raised exception              *)

Ok(v) == [kind |-> "ok", value |-> v, error |-> "none"]

Raise(e) == [kind |-> "error", value |-> "none", error |-> e]

NoCall == [op |-> "none"]

NoResult == [kind |-> "none", value |-> "none", error |-> "none"]

None == [supplied |-> FALSE, list |-> <<>>]

NameList(l) == [supplied |-> TRUE, list |-> l]

-----------------------------------------------------------------------------
(* Sub-parameter descriptors (collaborators of BanditParameter)            *)

\* DiscreteParameter(name, domain): the constructor stores its arguments.
DiscreteParameter(parameter_name, domain_unq) ==
    [kind |-> "Discrete", name |-> parameter_name, domain |-> domain_unq]

\* DiscreteParameter.bounds: one (low, high) pair spanning the smallest and
\* largest valid value; there is no such pair for an empty value set.
DiscreteBounds(p) ==
    IF p.domain = <<>> THEN Raise("ValueError:empty")
    ELSE Ok(<< <<p.domain[1], p.domain[Len(p.domain)]>> >>)

-----------------------------------------------------------------------------
(* Construction                                                            *)

\* f'{self.name}_{i}' for i in range(domain.shape[1]); the formatted string
\* is modelled by the pair <<self.name, i>>.
create_parameter_names(self_name, dom) ==
    [k \in 1 .. dom.shape[2] |-> <<self_name, k - 1>>]

\* "parameter_names if parameter_names else ...": None and the empty list
\* are both falsy.
Truthy(parameter_names) ==
    parameter_names.supplied /\ parameter_names.list # <<>>

\* Mutant: every descriptor reflects the first column, domain[:,0].
ReflectFirstColumn(dom, cix, parameter_name) ==
    DiscreteParameter(parameter_name, unique(Column(dom, 1)))

\* The descriptor built for column cix (1-based here): domain[:,cix],
\* np.unique, DiscreteParameter.
ReflectColumn(dom, cix, parameter_name) ==
    DiscreteParameter(parameter_name, unique(Column(dom, cix)))

create_parameters(self_name, dom, parameter_names) ==
    LET names == IF Truthy(parameter_names) THEN parameter_names.list
                 ELSE create_parameter_names(self_name, dom)
    IN  IF dom.shape[2] # Len(names) THEN Raise("AssertionError")
        ELSE IF Len(names) >= 1 /\ dom.dtype # "number"
             THEN Raise("NotImplementedError")
        ELSE Ok([cix \in 1 .. Len(names) |-> ReflectColumn(dom, cix, names[cix])])

\* The fields of self when __init__ ends, or the exception it raises.
BanditParameter_init(self_name, dom, sub_parameter_names) ==
    IF ndim(dom) # 2 THEN Raise("AssertionError")
    ELSE LET ps == create_parameters(self_name, dom, sub_parameter_names)
         IN  IF ps.kind = "error" THEN ps
             ELSE Ok([name |-> self_name, domain |-> dom, parameters |-> ps.value])

-----------------------------------------------------------------------------
(* check_in_domain                                                         *)

\* numpy broadcasting of the (N, D) table against an operand of at most two
\* axes: axis lengths must be equal or one of them 1.
Shape2(x) ==
    IF ndim(x) = 0 THEN <<1, 1>>
    ELSE IF ndim(x) = 1 THEN <<1, x.shape[1]>>
    ELSE x.shape

Broadcastable(dom, x) ==
    LET s == Shape2(x)
    IN  /\ (s[1] = dom.shape[1] \/ s[1] = 1 \/ dom.shape[1] = 1)
        /\ (s[2] = dom.shape[2] \/ s[2] = 1 \/ dom.shape[2] = 1)

\* Element (i, j) of the boolean table (self.domain == x).
EqAt(dom, x, i, j) ==
    LET s == Shape2(x)
        xi == IF s[1] = 1 THEN 1 ELSE i
        xj == IF s[2] = 1 THEN 1 ELSE j
    IN  At(dom, IF dom.shape[1] = 1 THEN 1 ELSE i, IF dom.shape[2] = 1 THEN 1 ELSE j)
          = x.data[(xi - 1) * s[2] + xj]

EqRows(dom, x) == IF dom.shape[1] = 1 THEN Shape2(x)[1] ELSE dom.shape[1]

EqCols(dom, x) == IF dom.shape[2] = 1 THEN Shape2(x)[2] ELSE dom.shape[2]

\* Mutant: membership decided column by column, (..).any(axis=0).all().
any_axis0_all(dom, x) ==
    \A j \in 1 .. EqCols(dom, x) : \E i \in 1 .. EqRows(dom, x) : EqAt(dom, x, i, j)

\* (self.domain == x).all(axis=1).any()
all_axis1_any(dom, x) ==
    \E i \in 1 .. EqRows(dom, x) : \A j \in 1 .. EqCols(dom, x) : EqAt(dom, x, i, j)

\* Mutant: the row vector (1, n) flattened instead of the column vector.
check_in_domain_row_vector(dom, x) ==
    LET flat == x.type = "ndarray" /\ ndim(x) = 2 /\ x.shape[1] = 1
        xn   == IF flat THEN ravel(x) ELSE x
    IN  IF x.type = "ndarray" /\ ~flat /\ ndim(x) > 1
        THEN {Raise("ValueError:shape")}
        ELSE IF ~Broadcastable(dom, xn)
             THEN {Raise("ValueError:broadcast"), Raise("AttributeError")}
        ELSE {Ok(all_axis1_any(dom, xn))}

\* The outcomes of check_in_domain(x).  Comparing shapes that do not
\* broadcast raises; which exception depends on the numpy release (ValueError
\* from ==, or AttributeError from calling .all on the scalar False).
check_in_domain(dom, x) ==
    LET flat == x.type = "ndarray" /\ ndim(x) = 2 /\ x.shape[2] = 1
        xn   == IF flat THEN ravel(x) ELSE x
    IN  IF x.type = "ndarray" /\ ~flat /\ ndim(x) > 1
        THEN {Raise("ValueError:shape")}
        ELSE IF ~Broadcastable(dom, xn)
             THEN {Raise("ValueError:broadcast"), Raise("AttributeError")}
        ELSE {Ok(all_axis1_any(dom, xn))}

-----------------------------------------------------------------------------
(* dimension and bounds                                                    *)

\* Mutant: a Discrete descriptor counted like a one-hot encoded one, one
\* dimension per valid value.
DimensionOfOneHot(p) ==
    IF p.kind = "Continuous" THEN Ok(1)
    ELSE IF p.kind = "Discrete" THEN Ok(Len(p.domain))
    ELSE IF p.kind = "Categorical" THEN Ok(p.dimension)
    ELSE Raise("Exception")

\* The contribution of one descriptor to dimension.
DimensionOf(p) ==
    IF p.kind \in {"Continuous", "Discrete"} THEN Ok(1)
    ELSE IF p.kind = "Categorical" THEN Ok(p.dimension)
    ELSE Raise("Exception")

RECURSIVE SumDims(_, _)
SumDims(ps, d) ==
    IF ps = <<>> THEN Ok(d)
    ELSE LET c == DimensionOf(Head(ps))
         IN  IF c.kind = "error" THEN c ELSE SumDims(Tail(ps), d + c.value)

dimension(ps) == SumDims(ps, 0)

RECURSIVE ConcatBounds(_)
ConcatBounds(ps) ==
    IF ps = <<>> THEN Ok(<<>>)
    ELSE LET b    == DiscreteBounds(Head(ps))
             rest == ConcatBounds(Tail(ps))
         IN  IF b.kind = "error" THEN b
             ELSE IF rest.kind = "error" THEN rest
             ELSE Ok(b.value \o rest.value)

\* [pb for p in self.parameters for pb in p.bounds]
bounds(ps) == ConcatBounds(ps)

-----------------------------------------------------------------------------
(* round                                                                   *)

RECURSIVE SumSq(_, _, _)
SumSq(d, row, j) ==
    IF j = 0 THEN 0
    ELSE (d[j] - row[j]) * (d[j] - row[j]) + SumSq(d, row, j - 1)

\* np.linalg.norm(d - row), squared.
NormSq(d, row) == SumSq(d, row, Len(d))

\* The key of every table row in min(self.domain, key=...).
Keys(dom, row) == [k \in 1 .. dom.shape[1] |-> NormSq(Row(dom, k), row)]

\* Mutant: the last of the nearest rows (a scan that replaces on <=).
LastNearest(dom, row) ==
    LET key == Keys(dom, row)
    IN  CHOOSE i \in 1 .. dom.shape[1] :
            /\ \A k \in 1 .. dom.shape[1] : key[i] <= key[k]
            /\ \A k \in (i + 1) .. dom.shape[1] : key[k] > key[i]

\* min(self.domain, key=lambda d: np.linalg.norm(d-row)): the index of the
\* first row with the smallest key (Python's min keeps the first minimum).
Nearest(dom, row) ==
    LET key == Keys(dom, row)
    IN  CHOOSE i \in 1 .. dom.shape[1] :
            /\ \A k \in 1 .. dom.shape[1] : key[i] <= key[k]
            /\ \A k \in 1 .. (i - 1) : key[k] > key[i]

RECURSIVE ConcatData(_)
ConcatData(xs) == IF xs = <<>> THEN <<>> ELSE Head(xs).data \o ConcatData(Tail(xs))

\* np.row_stack of a list of (1, D) array-likes; an empty list raises.
row_stack(xs) ==
    IF xs = <<>> THEN Raise("ValueError:row_stack")
    ELSE Ok(NdArray("number", <<Len(xs), xs[1].shape[2]>>, ConcatData(xs)))

\* The value of a column nearest to v (first in column order).
NearestInColumn(dom, j, v) ==
    LET i == CHOOSE i \in 1 .. dom.shape[1] :
                 \A k \in 1 .. dom.shape[1] :
                     (At(dom, i, j) - v) * (At(dom, i, j) - v)
                         <= (At(dom, k, j) - v) * (At(dom, k, j) - v)
    IN  At(dom, i, j)

\* Mutant: each column rounded on its own to a value of that column, and no
\* check of the rounded rows.
round_per_column(dom, ps, x) ==
    IF ndim(x) # 2 THEN {Raise("ValueError:ndim")}
    ELSE IF x.shape[2] # Len(ps) THEN {Raise("ValueError:columns")}
    ELSE IF x.shape[1] >= 1 /\ dom.shape[1] = 0 THEN {Raise("ValueError:min")}
    ELSE {row_stack([r \in 1 .. x.shape[1] |->
                        ListOf([j \in 1 .. x.shape[2] |->
                                   NearestInColumn(dom, j, At(x, r, j))])])}

\* The outcomes of round(x).
round(dom, ps, x) ==
    IF ndim(x) # 2 THEN {Raise("ValueError:ndim")}
    ELSE LET dim == dimension(ps)
         IN  IF dim.kind = "error" THEN {dim}
             ELSE IF x.shape[2] # dim.value THEN {Raise("ValueError:columns")}
             \* min() of an empty sequence, on the first row of x
             ELSE IF x.shape[1] >= 1 /\ dom.shape[1] = 0 THEN {Raise("ValueError:min")}
             ELSE LET x_rounded == [r \in 1 .. x.shape[1] |->
                                       ListOf(Row(dom, Nearest(dom, Row(x, r))))]
                      checks == UNION {check_in_domain(dom, x_rounded[r]) :
                                       r \in 1 .. Len(x_rounded)}
                      failed == {IF o.kind = "error" THEN o ELSE Raise("AssertionError") :
                                 o \in {c \in checks : c.kind = "error" \/ ~c.value}}
                 IN  IF failed # {} THEN failed ELSE {row_stack(x_rounded)}

-----------------------------------------------------------------------------
(* sample_uniform                                                          *)

\* self.domain[indices]: row indices[k] of the table for each k.
Take(dom, indices) ==
    NdArray(dom.dtype, <<Len(indices), dom.shape[2]>>,
            [k \in 1 .. Len(indices) * dom.shape[2] |->
                At(dom, indices[((k - 1) \div dom.shape[2]) + 1],
                        ((k - 1) % dom.shape[2]) + 1)])

\* Mutant: each column drawn on its own, one row index per element.
sample_per_column(dom, point_count) ==
    IF dom.shape[1] = 0 THEN {Raise("ValueError:choice")}
    ELSE {Ok(NdArray(dom.dtype, <<point_count, dom.shape[2]>>,
                     [k \in 1 .. point_count * dom.shape[2] |->
                         At(dom, idx[k], ((k - 1) % dom.shape[2]) + 1)])) :
          idx \in [1 .. point_count * dom.shape[2] -> 1 .. dom.shape[1]]}

\* The outcomes of sample_uniform(point_count), point_count >= 0:
\* np.random.choice(N, point_count) draws point_count indices below N with
\* replacement.  It raises for N = 0 when samples are asked for; for N = 0
\* and no samples it raises or returns no index, depending on the release.
sample_uniform(dom, point_count) ==
    IF dom.shape[1] = 0
    THEN {Raise("ValueError:choice")}
            \cup (IF point_count = 0 THEN {Ok(Take(dom, <<>>))} ELSE {})
    ELSE {Ok(Take(dom, indices)) : indices \in [1 .. point_count -> 1 .. dom.shape[1]]}

-----------------------------------------------------------------------------
(* The object and the calls made on it                                     *)

Name == "x"

NoArray == [type |-> "none", dtype |-> "none", shape |-> <<>>, data |-> <<>>]

\* A supplied list of l names.
UserNames(l) == [k \in 1 .. l |-> <<"user", k>>]

DomainInputs == ArraysOf({"number", "object"}, Shapes1 \cup Shapes2)

QueryArrays == ArraysOf({"number"}, Shapes1 \cup Shapes2)

QueryInputs == QueryArrays \cup {Scalar(v) : v \in Values}

Init ==
    /\ pc = "new"
    /\ name = "none"
    /\ domain = NoArray
    /\ parameters = <<>>
    /\ call = NoCall
    /\ result = NoResult

\* BanditParameter(name, domain, sub_parameter_names)
Construct ==
    /\ pc = "new"
    /\ \E dom \in DomainInputs :
       \E names \in {None} \cup {NameList(UserNames(l)) :
                                 l \in 0 .. (dom.shape[ndim(dom)] + 1)} :
          LET o == BanditParameter_init(Name, dom, names)
          IN  /\ call' = [op |-> "init", domain |-> dom, names |-> names]
              /\ result' = IF o.kind = "ok" THEN Ok("self") ELSE o
              /\ pc' = IF o.kind = "ok" THEN "returned" ELSE "failed"
              /\ name' = Name
              /\ domain' = IF ndim(dom) = 2 THEN dom ELSE domain
              /\ parameters' = IF o.kind = "ok" THEN o.value.parameters ELSE parameters

\* self.check_in_domain(x)
CheckInDomain ==
    /\ pc = "idle"
    /\ \E x \in QueryInputs :
       \E o \in check_in_domain(domain, x) :
          /\ call' = [op |-> "check_in_domain", x |-> x]
          /\ result' = o
    /\ pc' = "returned"
    /\ UNCHANGED <<name, domain, parameters>>

\* self.round(x)
Round ==
    /\ pc = "idle"
    /\ \E x \in QueryArrays :
       \E o \in round(domain, parameters, x) :
          /\ call' = [op |-> "round", x |-> x]
          /\ result' = o
    /\ pc' = "returned"
    /\ UNCHANGED <<name, domain, parameters>>

\* Mutant: the table shuffled in place and its first rows returned.
SampleUniformInPlace ==
    /\ pc = "idle"
    /\ \E n \in 0 .. MaxPoints :
       \E perm \in {f \in [1 .. domain.shape[1] -> 1 .. domain.shape[1]] :
                       \A a, b \in 1 .. domain.shape[1] : f[a] = f[b] => a = b} :
          /\ call' = [op |-> "sample_uniform", point_count |-> n]
          /\ domain' = Take(domain, perm)
          /\ result' = IF n <= domain.shape[1]
                       THEN Ok(Take(domain, [k \in 1 .. n |-> perm[k]]))
                       ELSE Raise("ValueError:choice")
    /\ pc' = "returned"
    /\ UNCHANGED <<name, parameters>>

\* self.sample_uniform(point_count)
SampleUniform ==
    /\ pc = "idle"
    /\ \E n \in 0 .. MaxPoints :
       \E o \in sample_uniform(domain, n) :
          /\ call' = [op |-> "sample_uniform", point_count |-> n]
          /\ result' = o
    /\ pc' = "returned"
    /\ UNCHANGED <<name, domain, parameters>>

\* self.dimension
Dimension ==
    /\ pc = "idle"
    /\ call' = [op |-> "dimension"]
    /\ result' = dimension(parameters)
    /\ pc' = "returned"
    /\ UNCHANGED <<name, domain, parameters>>

\* self.bounds
Bounds ==
    /\ pc = "idle"
    /\ call' = [op |-> "bounds"]
    /\ result' = bounds(parameters)
    /\ pc' = "returned"
    /\ UNCHANGED <<name, domain, parameters>>

\* The caller takes the outcome of the last call; the object is ready for
\* the next one.
Return ==
    /\ pc = "returned"
    /\ pc' = "idle"
    /\ call' = NoCall
    /\ result' = NoResult
    /\ UNCHANGED <<name, domain, parameters>>

Next ==
    \/ Construct
    \/ CheckInDomain
    \/ Round
    \/ SampleUniform
    \/ Dimension
    \/ Bounds
    \/ Return

Spec == Init /\ [][Next]_vars

-----------------------------------------------------------------------------
(* Properties                                                              *)

Constructed == pc \in {"idle", "returned"}

NRows == domain.shape[1]

NCols == domain.shape[2]

\* The tuple r is, component for component, some row of the table.
IsDomainRow(r) == \E i \in 1 .. NRows : Row(domain, i) = r

\* Every component of r occurs somewhere in its own column.
InEveryColumn(r) ==
    \A j \in 1 .. NCols : \E i \in 1 .. NRows : At(domain, i, j) = r[j]

Called(op) == pc = "returned" /\ call.op = op

\* C1: for a 1-d point x of length D, check_in_domain(x) returns true iff x
\* equals some whole row of the domain; so every domain row is accepted and
\* a point that only matches column by column is rejected.
C1_MembershipIsByRow ==
    (Called("check_in_domain") /\ call.x.type = "ndarray"
        /\ call.x.shape = <<NCols>>)
    => /\ result.kind = "ok"
       /\ result.value = IsDomainRow(call.x.data)
       /\ (\A i \in 1 .. NRows : call.x.data = Row(domain, i) => result.value)

C1_Witness ==
    /\ Called("check_in_domain")
    /\ call.x.type = "ndarray"
    /\ call.x.shape = <<NCols>>
    /\ NCols = 2
    /\ InEveryColumn(call.x.data)
    /\ ~IsDomainRow(call.x.data)
    /\ result = Ok(FALSE)

\* C2: every row of a result returned by round is exactly a row of the
\* domain and is accepted by check_in_domain; round never returns anything
\* else.
C2_RoundedRowsAreDomainRows ==
    (Called("round") /\ result.kind = "ok")
    => \A r \in 1 .. result.value.shape[1] :
          /\ IsDomainRow(Row(result.value, r))
          /\ check_in_domain(domain,
                 NdArray("number", <<NCols>>, Row(result.value, r))) = {Ok(TRUE)}

C2_Witness ==
    /\ Called("round")
    /\ result.kind = "ok"
    /\ NCols = 2
    /\ \E r \in 1 .. call.x.shape[1] :
          /\ ~IsDomainRow(Row(call.x, r))
          /\ InEveryColumn(Row(call.x, r))
          /\ IsDomainRow(Row(result.value, r))

\* C3: output row r of round is a domain row at minimal Euclidean distance
\* from input row r, and among the domain rows at that distance it is the
\* first in table order.
C3_NearestFirst ==
    (Called("round") /\ result.kind = "ok")
    => \A r \in 1 .. call.x.shape[1] :
          LET dist == [k \in 1 .. NRows |-> NormSq(Row(domain, k), Row(call.x, r))]
          IN  \E i \in 1 .. NRows :
                 /\ Row(result.value, r) = Row(domain, i)
                 /\ \A k \in 1 .. NRows : dist[i] <= dist[k]
                 /\ \A k \in 1 .. (i - 1) : dist[k] > dist[i]

C3_Witness ==
    /\ Called("round")
    /\ result.kind = "ok"
    /\ NRows = 2
    /\ Row(domain, 1) # Row(domain, 2)
    /\ \E r \in 1 .. call.x.shape[1] :
          /\ NormSq(Row(domain, 1), Row(call.x, r)) = NormSq(Row(domain, 2), Row(call.x, r))
          /\ Row(result.value, r) = Row(domain, 1)

\* C4 as stated, at n >= 1 and D >= 1: sample_uniform(n) returns a table of
\* n rows and D columns whose rows are domain rows.
C4_SampleAlwaysReturns ==
    (Called("sample_uniform") /\ call.point_count >= 1 /\ NCols >= 1)
    => /\ result.kind = "ok"
       /\ result.value.shape = <<call.point_count, NCols>>
       /\ \A r \in 1 .. call.point_count : IsDomainRow(Row(result.value, r))

\* C4 amended: when the domain has at least one row, sample_uniform(n)
\* returns, for every n >= 0, a table of n rows and D columns whose rows are
\* domain rows accepted by check_in_domain; for n = 0 the table is empty.
C4_SampleOfNonEmptyDomain ==
    (Called("sample_uniform") /\ NRows >= 1)
    => /\ result.kind = "ok"
       /\ result.value.shape = <<call.point_count, NCols>>
       /\ Len(result.value.data) = call.point_count * NCols
       /\ \A r \in 1 .. call.point_count :
             /\ IsDomainRow(Row(result.value, r))
             /\ check_in_domain(domain,
                    NdArray("number", <<NCols>>, Row(result.value, r))) = {Ok(TRUE)}

C4_Witness ==
    /\ Called("sample_uniform")
    /\ call.point_count = 2
    /\ NCols = 2
    /\ NRows = 2
    /\ ~IsDomainRow(<<At(domain, 1, 1), At(domain, 2, 2)>>)
    /\ result.kind = "ok"
    /\ Row(result.value, 1) = Row(domain, 2)
    /\ Row(result.value, 2) = Row(domain, 2)

\* C5: after a successful construction every descriptor is Discrete, there
\* is one per column, and dimension is their summed contribution, which is
\* the number of columns D; dimension never raises.
C5_DimensionIsColumnCount ==
    Constructed
    => /\ Len(parameters) = NCols
       /\ \A i \in 1 .. Len(parameters) : parameters[i].kind = "Discrete"
       /\ dimension(parameters) = Ok(NCols)
       /\ (call.op = "dimension" => result = Ok(NCols))

C5_Witness ==
    /\ Called("dimension")
    /\ NCols = 2
    /\ NRows = 2
    /\ result = Ok(2)

\* C6 as stated: bounds is, for every constructed object, a list of length
\* dimension, entry i holding a smallest and a largest value of column i.
C6_BoundsAlwaysReturns ==
    Called("bounds")
    => /\ result.kind = "ok"
       /\ Ok(Len(result.value)) = dimension(parameters)
       /\ \A j \in 1 .. NCols :
             /\ \E i \in 1 .. NRows : At(domain, i, j) = result.value[j][1]
             /\ \E i \in 1 .. NRows : At(domain, i, j) = result.value[j][2]

\* C6 amended: when the domain has at least one row, bounds is a list of
\* length dimension whose i-th entry is (minimum of column i, maximum of
\* column i).
C6_BoundsOfNonEmptyDomain ==
    (Called("bounds") /\ NRows >= 1)
    => /\ result.kind = "ok"
       /\ Ok(Len(result.value)) = dimension(parameters)
       /\ Len(result.value) = NCols
       /\ \A j \in 1 .. NCols :
             /\ \E i \in 1 .. NRows : At(domain, i, j) = result.value[j][1]
             /\ \E i \in 1 .. NRows : At(domain, i, j) = result.value[j][2]
             /\ \A i \in 1 .. NRows :
                   /\ result.value[j][1] <= At(domain, i, j)
                   /\ At(domain, i, j) <= result.value[j][2]

C6_Witness ==
    /\ Called("bounds")
    /\ NRows = 2
    /\ result = Ok(<< <<0, 1>>, <<1, 1>> >>)

\* C7: construction fails whenever a name list is supplied whose length
\* differs from the number of columns, the empty list included; names are
\* defaulted only when no list is supplied.  Stated for tables that have a
\* row.
C7_WrongNameCountFails ==
    (call.op = "init" /\ ndim(call.domain) = 2 /\ call.domain.shape[1] >= 1
        /\ call.names.supplied)
    => /\ Len(call.names.list) # call.domain.shape[2] => pc = "failed"
       /\ pc = "returned"
            => \A i \in 1 .. Len(parameters) : parameters[i].name = call.names.list[i]

\* C8: for a 2-d input with dimension columns and R >= 0 rows, round returns
\* R rows and D columns, row r being the projection of input row r.  Stated
\* for tables that have a row to project on and a column.
C8_RoundKeepsShape ==
    (Called("round") /\ ndim(call.x) = 2 /\ NRows >= 1 /\ NCols >= 1
        /\ Ok(call.x.shape[2]) = dimension(parameters))
    => /\ result.kind = "ok"
       /\ result.value.shape = <<call.x.shape[1], NCols>>
       /\ \A r \in 1 .. call.x.shape[1] :
             Row(result.value, r) = Row(domain, Nearest(domain, Row(call.x, r)))

\* C9 as stated, in part: a 2-d input of any shape other than (D, 1) never
\* returns a boolean.  Stated for tables that have a row and D > 1.
C9_OtherShapesFail ==
    (Called("check_in_domain") /\ call.x.type = "ndarray" /\ ndim(call.x) = 2
        /\ NRows >= 1 /\ NCols > 1
        /\ call.x.shape # <<NCols, 1>>)
    => result.kind = "error"

\* C9 amended: check_in_domain raises the invalid-shape error exactly for
\* the 2-d inputs whose second axis is not of length 1.  A (k, 1) column
\* vector is flattened to length k: for k = D it gives the answer of the
\* flattened point, for k = 1 it returns a boolean whatever D is.  1-d inputs
\* and scalars never raise the invalid-shape error, and a scalar returns a
\* boolean.
C9_ShapeErrorOnlyForWideInputs ==
    Called("check_in_domain")
    => /\ (result = Raise("ValueError:shape"))
            <=> (ndim(call.x) = 2 /\ call.x.shape[2] # 1)
       /\ (ndim(call.x) = 2 /\ call.x.shape = <<NCols, 1>>)
            => result = Ok(IsDomainRow(call.x.data))
       /\ (ndim(call.x) = 2 /\ call.x.shape = <<1, 1>>) => result.kind = "ok"
       /\ call.x.type = "float" => result.kind = "ok"

C9_Witness ==
    /\ Called("check_in_domain")
    /\ call.x.shape = <<1, 1>>
    /\ NCols = 2
    /\ result = Ok(TRUE)

\* The descriptors are aligned with the columns: descriptor i holds the
\* distinct values of column i.
Aligned ==
    /\ Len(parameters) = NCols
    /\ \A i \in 1 .. NCols :
          {parameters[i].domain[k] : k \in 1 .. Len(parameters[i].domain)}
             = {At(domain, r, i) : r \in 1 .. NRows}

\* C10: once the object is constructed no call, returning or raising,
\* changes the domain table or the descriptor list, and the descriptors stay
\* aligned with the columns.
C10_ReadOnlyAfterConstruction ==
    [][Constructed => (/\ domain' = domain
                       /\ parameters' = parameters
                       /\ name' = name
                       /\ Aligned')]_vars

C10_Witness ==
    /\ pc = "returned"
    /\ call.op = "round"
    /\ result.kind = "error"
    /\ domain.shape = <<2, 2>>
    /\ Row(domain, 1) # Row(domain, 2)
    /\ Aligned

=============================================================================
